---- MODULE Spec2Model ----
(***************************************************************************)
(* The DJ tipping canister of src/src/dfinity_js_backend/src/index.ts:     *)
(* user profiles, tips, ratings and the per-DJ leaderboard derived from    *)
(* them, with the song requests, events and playlists kept beside them.    *)
(* The file holds the canister's revisions one after another; the         *)
(* model is the last revision (lines 620-1175, float64 avg_rating and      *)
(* total_rating_points) together with the two routes only the first        *)
(* revision has, deleteUserProfile and getLeaderboardForTopDJs.  The first *)
(* revision's own createUserProfile, createTip and createRating, whose     *)
(* avg_rating is a nat64, are modelled apart and run by SpecRev1 alone.    *)
(*                                                                         *)
(* Every `text` value is a sequence of one-character strings, so that      *)
(* trim() and toLowerCase() are computed and the key order of a            *)
(* StableBTreeMap is the order of the characters' codes.  An Opt value is  *)
(* a sequence of length 0 (None) or 1 (Some).  A float64 is the exact      *)
(* fraction [num, den] in lowest terms: a quotient of two integers below   *)
(* 2^53 is rounded to the nearest double, which keeps the order and the    *)
(* equality of such quotients.  Each call runs to completion as one step   *)
(* (the canister's execution model).  What a call returns is a function of *)
(* the state it is made in and of its arguments: the ...Result operators;  *)
(* a call that returns an error, and every query, leaves the state as it   *)
(* is.                                                                     *)
(***************************************************************************)
EXTENDS Integers, Sequences, FiniteSets, Bags, TLC

VARIABLES
    usersStorage,        \* id -> User                      (line 720)
    contactsStorage,     \* contact -> user id              (line 721)
    songRequestsStorage, \* bag of SongRequest records     (line 722)
    tipsStorage,         \* bag of Tip records              (line 723)
    eventsStorage,       \* id -> Event                     (line 724)
    playlistsStorage,    \* bag of Playlist records         (line 725)
    ratingsStorage,      \* bag of Rating records           (line 726)
    leaderboardStorage   \* dj_name -> LeaderboardEntry     (line 727)

\* the stores no tip, rating or profile route touches
eventStores == <<songRequestsStorage, eventsStorage, playlistsStorage>>

vars == <<usersStorage, contactsStorage, tipsStorage, ratingsStorage,
          leaderboardStorage, eventStores>>

----------------------------------------------------------------------------
(* Bounds of the model *)

\* tips and ratings stored in one run of Spec
MaxEvents == 3

\* tips and ratings stored in one run of SpecTop
MaxTopEvents == 6

\* song requests, events and playlists stored in one run of SpecRoutes
MaxRecords == 3

\* tips and ratings stored in one run of SpecNova
MaxNovaEvents == 6

\* tips and ratings stored in one run of SpecRev1
MaxRev1Events == 4

----------------------------------------------------------------------------
(* text *)

CharCode(c) ==
    CASE c = " " -> 32
      [] c = "1" -> 49
      [] c = "2" -> 50
      [] c = "3" -> 51
      [] c = "A" -> 65
      [] c = "B" -> 66
      [] c = "N" -> 78
      [] c = "X" -> 88
      [] c = "a" -> 97
      [] c = "b" -> 98
      [] c = "n" -> 110
      [] c = "o" -> 111
      [] c = "v" -> 118
      [] c = "x" -> 120
      [] c = "y" -> 121

ToLowerChar(c) ==
    CASE c = "A" -> "a"
      [] c = "B" -> "b"
      [] c = "N" -> "n"
      [] c = "X" -> "x"
      [] OTHER -> c

\* String.prototype.toLowerCase
ToLowerCase(s) == [i \in 1..Len(s) |-> ToLowerChar(s[i])]

RECURSIVE TrimStart(_)
TrimStart(s) ==
    IF s # <<>> /\ Head(s) = " " THEN TrimStart(Tail(s)) ELSE s

RECURSIVE TrimEnd(_)
TrimEnd(s) ==
    IF s # <<>> /\ s[Len(s)] = " " THEN TrimEnd(SubSeq(s, 1, Len(s) - 1)) ELSE s

\* String.prototype.trim
Trim(s) == TrimEnd(TrimStart(s))

\* the order of the keys of a StableBTreeMap<text, _>
RECURSIVE KeyLess(_, _)
KeyLess(s, t) ==
    IF t = <<>> THEN FALSE
    ELSE IF s = <<>> THEN TRUE
    ELSE IF Head(s) # Head(t) THEN CharCode(Head(s)) < CharCode(Head(t))
    ELSE KeyLess(Tail(s), Tail(t))

RECURSIVE SortedKeys(_)
SortedKeys(S) ==
    IF S = {} THEN <<>>
    ELSE LET m == CHOOSE k \in S : \A j \in S : j = k \/ KeyLess(k, j)
         IN  <<m>> \o SortedKeys(S \ {m})

\* StableBTreeMap.values(): the values in ascending key order
Values(map) ==
    LET ks == SortedKeys(DOMAIN map)
    IN  [i \in 1..Len(ks) |-> map[ks[i]]]

\* StableBTreeMap.get(key)
Get(map, key) == IF key \in DOMAIN map THEN <<map[key]>> ELSE <<>>

\* StableBTreeMap.insert(key, value)
Insert(map, key, value) ==
    [k \in DOMAIN map \cup {key} |-> IF k = key THEN value ELSE map[k]]

\* StableBTreeMap.remove(key)
Remove(map, key) == [k \in DOMAIN map \ {key} |-> map[k]]

\* the least of a non-empty set of indices
First(I) == CHOOSE i \in I : \A j \in I : i <= j

----------------------------------------------------------------------------
(* float64 *)

RECURSIVE GCD(_, _)
GCD(a, b) == IF b = 0 THEN a ELSE GCD(b, a % b)

\* Number(x) of a bigint
NumberOf(x) == [num |-> x, den |-> 1]

\* Quotient with the integer division of the bigint operands
TruncatingQuotient(p, n) == NumberOf(p \div n)

\* Number(p) / Number(n), n > 0
Quotient(p, n) ==
    LET g == GCD(p, n) IN [num |-> p \div g, den |-> n \div g]

\* x - y of two float64, as its sign
FloatDiffSign(x, y) ==
    LET d == x.num * y.den - y.num * x.den
    IN  IF d > 0 THEN 1 ELSE IF d < 0 THEN -1 ELSE 0

\* FloatGeq with > in place of >=
FloatGt(x, y) == x.num * y.den > y.num * x.den

\* x >= y of two float64
FloatGeq(x, y) == x.num * y.den >= y.num * x.den

----------------------------------------------------------------------------

Init ==
    /\ usersStorage = <<>>
    /\ contactsStorage = <<>>
    /\ tipsStorage = EmptyBag
    /\ ratingsStorage = EmptyBag
    /\ leaderboardStorage = <<>>
    /\ songRequestsStorage = EmptyBag
    /\ eventsStorage = <<>>
    /\ playlistsStorage = EmptyBag

----------------------------------------------------------------------------
(* Results *)

\* Ok(value)
Ok(value) == [status |-> "Ok", value |-> value]

\* createError(errorType, message)
CreateError(errorType) == [status |-> errorType, value |-> <<>>]

\* tips and ratings stored so far
Events == BagCardinality(tipsStorage) + BagCardinality(ratingsStorage)

----------------------------------------------------------------------------
(* User profiles *)

\* a profile; created_at, status and points play no part in any route
User(id, name, contact, role) ==
    [id |-> id, name |-> name, contact |-> contact, role |-> role]

\* FindDJ without the test of the role (the lookup of the earlier revisions)
FindDJAnyRole(name) ==
    LET users == Values(usersStorage)
        IsNamed(dj) == ToLowerCase(dj.name) = ToLowerCase(name)
        found == {i \in 1..Len(users) : IsNamed(users[i])}
    IN  IF found = {} THEN <<>> ELSE <<users[First(found)]>>

\* usersStorage.values().find(dj => dj.name.toLowerCase() === name.toLowerCase()
\*                                   && "DJ" in dj.role)
FindDJ(name) ==
    LET users == Values(usersStorage)
        IsDJ(dj) == ToLowerCase(dj.name) = ToLowerCase(name) /\ dj.role = "DJ"
        found == {i \in 1..Len(users) : IsDJ(users[i])}
    IN  IF found = {} THEN <<>> ELSE <<users[First(found)]>>

\* what createUserProfile returns; userId is the uuid drawn for the profile
CreateUserProfileResult(userId, name, contact, role) ==
    IF name = <<>> \/ contact = <<>> \/ Trim(name) = <<>> \/ Trim(contact) = <<>>
    THEN CreateError("InvalidPayload")
    ELSE IF Get(contactsStorage, Trim(contact)) # <<>>
    THEN CreateError("InvalidPayload")
    ELSE Ok(<<User(userId, Trim(name), Trim(contact), role)>>)

\* createUserProfile
CreateUserProfile(userId, name, contact, role) ==
    LET r == CreateUserProfileResult(userId, name, contact, role)
    IN  /\ userId \notin DOMAIN usersStorage
        /\ IF r.status = "Ok"
           THEN /\ usersStorage' = Insert(usersStorage, userId, r.value[1])
                /\ contactsStorage' = Insert(contactsStorage, Trim(contact), userId)
                /\ UNCHANGED <<tipsStorage, ratingsStorage, leaderboardStorage, eventStores>>
           ELSE UNCHANGED vars

\* what updateUserProfile returns
UpdateUserProfileResult(userId, name, contact, role) ==
    IF name = <<>> \/ contact = <<>> \/ Trim(name) = <<>> \/ Trim(contact) = <<>>
    THEN CreateError("InvalidPayload")
    ELSE IF Get(usersStorage, userId) = <<>>
    THEN CreateError("NotFound")
    ELSE IF /\ Get(contactsStorage, Trim(contact)) # <<>>
            /\ Get(contactsStorage, Trim(contact))[1] # userId
    THEN CreateError("InvalidPayload")
    ELSE Ok(<<User(userId, Trim(name), Trim(contact), role)>>)

\* updateUserProfile
UpdateUserProfile(userId, name, contact, role) ==
    LET r == UpdateUserProfileResult(userId, name, contact, role)
    IN  IF r.status = "Ok"
        THEN /\ usersStorage' = Insert(usersStorage, userId, r.value[1])
             /\ contactsStorage' = Insert(contactsStorage, Trim(contact), userId)
             /\ UNCHANGED <<tipsStorage, ratingsStorage, leaderboardStorage, eventStores>>
        ELSE UNCHANGED vars

\* what deleteUserProfile returns
DeleteUserProfileResult(userId) ==
    IF Get(usersStorage, userId) = <<>>
    THEN CreateError("NotFound")
    ELSE Ok(<<TRUE>>)

\* deleteUserProfile that also removes the leaderboard entries of the
\* deleted user's name
DeleteUserProfileCascade(userId) ==
    IF Get(usersStorage, userId) # <<>>
    THEN LET name == usersStorage[userId].name
             kept == {k \in DOMAIN leaderboardStorage :
                        ToLowerCase(k) # ToLowerCase(name)}
         IN  /\ usersStorage' = Remove(usersStorage, userId)
             /\ leaderboardStorage' = [k \in kept |-> leaderboardStorage[k]]
             /\ UNCHANGED <<contactsStorage, tipsStorage, ratingsStorage,
                            eventStores>>
    ELSE UNCHANGED vars

\* deleteUserProfile
DeleteUserProfile(userId) ==
    IF DeleteUserProfileResult(userId).status = "Ok"
    THEN /\ usersStorage' = Remove(usersStorage, userId)
         /\ UNCHANGED <<contactsStorage, tipsStorage, ratingsStorage,
                        leaderboardStorage, eventStores>>
    ELSE UNCHANGED vars

----------------------------------------------------------------------------
(* Tips and ratings *)

\* CreateTipResult with the tip stored as Completed
CreateTipResultCompleted(user_id, dj_name, amount) ==
    IF dj_name = <<>> \/ user_id = <<>> \/ Trim(dj_name) = <<>> \/ amount <= 0
    THEN CreateError("InvalidPayload")
    ELSE IF Get(usersStorage, user_id) = <<>>
    THEN CreateError("NotFound")
    ELSE IF Get(usersStorage, user_id)[1].role = "DJ"
    THEN CreateError("InvalidPayload")
    ELSE IF FindDJ(Trim(dj_name)) = <<>>
    THEN CreateError("NotFound")
    ELSE Ok(<<[user_id |-> user_id,
               dj_name |-> Trim(dj_name),
               amount |-> amount,
               tip_status |-> "Completed"]>>)

\* what createTip returns
CreateTipResult(user_id, dj_name, amount) ==
    IF dj_name = <<>> \/ user_id = <<>> \/ Trim(dj_name) = <<>> \/ amount <= 0
    THEN CreateError("InvalidPayload")
    ELSE IF Get(usersStorage, user_id) = <<>>
    THEN CreateError("NotFound")
    ELSE IF Get(usersStorage, user_id)[1].role = "DJ"
    THEN CreateError("InvalidPayload")
    ELSE IF FindDJ(Trim(dj_name)) = <<>>
    THEN CreateError("NotFound")
    ELSE Ok(<<[user_id |-> user_id,
               dj_name |-> Trim(dj_name),
               amount |-> amount,
               tip_status |-> "Pending"]>>)

\* a blank entry
NoEntry(dj_name) ==
    [dj_name |-> Trim(dj_name), total_tips |-> 0, total_ratings |-> 0,
     total_rating_points |-> 0, avg_rating |-> NumberOf(0)]

\* TipEntry with total_tips = amount in place of total_tips += amount
TipEntryOverwrite(dj_name, amount) ==
    [NoEntry(dj_name) EXCEPT !.total_tips = amount]

\* TipEntry that writes a new entry over the old one, keeping only the tips
TipEntryResetRatings(dj_name, amount) ==
    LET leaderboardEntryOpt == Get(leaderboardStorage, Trim(dj_name))
        old == IF leaderboardEntryOpt # <<>> THEN leaderboardEntryOpt[1].total_tips
               ELSE 0
    IN  [NoEntry(dj_name) EXCEPT !.total_tips = old + amount]

\* TipEntry that counts a tip only once: an amount this DJ has already been
\* tipped is not added again
TipEntryOnce(dj_name, amount) ==
    LET leaderboardEntryOpt == Get(leaderboardStorage, Trim(dj_name))
        seen == \E t \in BagToSet(tipsStorage) :
                    t.dj_name = Trim(dj_name) /\ t.amount = amount
    IN  IF leaderboardEntryOpt # <<>>
        THEN [leaderboardEntryOpt[1] EXCEPT
                 !.total_tips = IF seen THEN @ ELSE @ + amount]
        ELSE [NoEntry(dj_name) EXCEPT !.total_tips = amount]

\* the entry createTip writes for dj_name (the nat64 counters are bigints in the
\* handler and the amounts drawn here stay far below 2^64)
TipEntry(dj_name, amount) ==
    LET leaderboardEntryOpt == Get(leaderboardStorage, Trim(dj_name))
    IN  IF leaderboardEntryOpt # <<>>
        THEN [leaderboardEntryOpt[1] EXCEPT !.total_tips = @ + amount]
        ELSE [dj_name |-> Trim(dj_name),
              total_tips |-> amount,
              total_ratings |-> 0,
              total_rating_points |-> 0,
              avg_rating |-> NumberOf(0)]

\* createTip
CreateTip(user_id, dj_name, amount) ==
    LET r == CreateTipResult(user_id, dj_name, amount)
    IN  IF r.status = "Ok"
        THEN /\ tipsStorage' = tipsStorage (+) SetToBag({r.value[1]})
             /\ leaderboardStorage' =
                    Insert(leaderboardStorage, Trim(dj_name),
                           TipEntry(dj_name, amount))
             /\ UNCHANGED <<usersStorage, contactsStorage, ratingsStorage, eventStores>>
        ELSE UNCHANGED vars

\* CreateRatingResult without the upper bound on the rating
CreateRatingResultNoUpper(user_id, dj_name, rating) ==
    IF \/ dj_name = <<>> \/ user_id = <<>> \/ Trim(dj_name) = <<>>
       \/ rating < 1
    THEN CreateError("InvalidPayload")
    ELSE IF Get(usersStorage, user_id) = <<>>
    THEN CreateError("NotFound")
    ELSE IF FindDJ(Trim(dj_name)) = <<>>
    THEN CreateError("NotFound")
    ELSE Ok(<<[user_id |-> user_id,
               dj_name |-> Trim(dj_name),
               rating |-> rating]>>)

\* CreateRatingResult without the lower bound on the rating
CreateRatingResultNoLower(user_id, dj_name, rating) ==
    IF \/ dj_name = <<>> \/ user_id = <<>> \/ Trim(dj_name) = <<>>
       \/ rating > 5
    THEN CreateError("InvalidPayload")
    ELSE IF Get(usersStorage, user_id) = <<>>
    THEN CreateError("NotFound")
    ELSE IF FindDJ(Trim(dj_name)) = <<>>
    THEN CreateError("NotFound")
    ELSE Ok(<<[user_id |-> user_id,
               dj_name |-> Trim(dj_name),
               rating |-> rating]>>)

\* what createRating returns; the review text plays no part in any route
CreateRatingResult(user_id, dj_name, rating) ==
    IF \/ dj_name = <<>> \/ user_id = <<>> \/ Trim(dj_name) = <<>>
       \/ rating < 1 \/ rating > 5
    THEN CreateError("InvalidPayload")
    ELSE IF Get(usersStorage, user_id) = <<>>
    THEN CreateError("NotFound")
    ELSE IF FindDJ(Trim(dj_name)) = <<>>
    THEN CreateError("NotFound")
    ELSE Ok(<<[user_id |-> user_id,
               dj_name |-> Trim(dj_name),
               rating |-> rating]>>)

\* RatingEntry that leaves avg_rating of an existing entry as it was
RatingEntryStaleAvg(dj_name, rating) ==
    LET leaderboardEntryOpt == Get(leaderboardStorage, Trim(dj_name))
    IN  IF leaderboardEntryOpt # <<>>
        THEN [leaderboardEntryOpt[1] EXCEPT
                 !.total_ratings = @ + 1,
                 !.total_rating_points = @ + rating]
        ELSE [NoEntry(dj_name) EXCEPT
                 !.total_ratings = 1,
                 !.total_rating_points = rating,
                 !.avg_rating = NumberOf(rating)]

\* RatingEntry whose new entry counts the rating among the tips
RatingEntryAsTip(dj_name, rating) ==
    LET leaderboardEntryOpt == Get(leaderboardStorage, Trim(dj_name))
    IN  IF leaderboardEntryOpt # <<>>
        THEN LET e == leaderboardEntryOpt[1]
             IN  [e EXCEPT
                     !.total_ratings = @ + 1,
                     !.total_rating_points = @ + rating,
                     !.avg_rating = Quotient(e.total_rating_points + rating,
                                             e.total_ratings + 1)]
        ELSE [NoEntry(dj_name) EXCEPT
                 !.total_tips = rating,
                 !.total_ratings = 1,
                 !.total_rating_points = rating,
                 !.avg_rating = NumberOf(rating)]

\* RatingEntry that starts the ratings of an existing entry over
RatingEntryRestart(dj_name, rating) ==
    LET leaderboardEntryOpt == Get(leaderboardStorage, Trim(dj_name))
        old == IF leaderboardEntryOpt # <<>> THEN leaderboardEntryOpt[1].total_tips
               ELSE 0
    IN  [NoEntry(dj_name) EXCEPT
            !.total_tips = old,
            !.total_ratings = 1,
            !.total_rating_points = rating,
            !.avg_rating = NumberOf(rating)]

\* RatingEntry that writes the rated entry without its tips
RatingEntryDropTips(dj_name, rating) ==
    LET leaderboardEntryOpt == Get(leaderboardStorage, Trim(dj_name))
    IN  IF leaderboardEntryOpt # <<>>
        THEN LET e == leaderboardEntryOpt[1]
             IN  [e EXCEPT
                     !.total_tips = 0,
                     !.total_ratings = @ + 1,
                     !.total_rating_points = @ + rating,
                     !.avg_rating = Quotient(e.total_rating_points + rating,
                                             e.total_ratings + 1)]
        ELSE [NoEntry(dj_name) EXCEPT
                 !.total_ratings = 1,
                 !.total_rating_points = rating,
                 !.avg_rating = NumberOf(rating)]

\* the entry createRating writes for dj_name
RatingEntry(dj_name, rating) ==
    LET leaderboardEntryOpt == Get(leaderboardStorage, Trim(dj_name))
    IN  IF leaderboardEntryOpt # <<>>
        THEN LET leaderboardEntry == leaderboardEntryOpt[1]
                 total_ratings == leaderboardEntry.total_ratings + 1
                 total_rating_points ==
                     leaderboardEntry.total_rating_points + rating
             IN  [leaderboardEntry EXCEPT
                     !.total_ratings = total_ratings,
                     !.total_rating_points = total_rating_points,
                     !.avg_rating = Quotient(total_rating_points, total_ratings)]
        ELSE [dj_name |-> Trim(dj_name),
              total_tips |-> 0,
              total_ratings |-> 1,
              total_rating_points |-> rating,
              avg_rating |-> NumberOf(rating)]

\* createRating cut short after the Rating is stored: the entry is not written
CreateRatingRecordOnly(user_id, dj_name, rating) ==
    LET r == CreateRatingResult(user_id, dj_name, rating)
    IN  IF r.status = "Ok"
        THEN /\ ratingsStorage' = ratingsStorage (+) SetToBag({r.value[1]})
             /\ UNCHANGED <<usersStorage, contactsStorage, tipsStorage,
                            leaderboardStorage, eventStores>>
        ELSE UNCHANGED vars

\* createRating
CreateRating(user_id, dj_name, rating) ==
    LET r == CreateRatingResult(user_id, dj_name, rating)
    IN  IF r.status = "Ok"
        THEN /\ ratingsStorage' = ratingsStorage (+) SetToBag({r.value[1]})
             /\ leaderboardStorage' =
                    Insert(leaderboardStorage, Trim(dj_name),
                           RatingEntry(dj_name, rating))
             /\ UNCHANGED <<usersStorage, contactsStorage, tipsStorage, eventStores>>
        ELSE UNCHANGED vars

----------------------------------------------------------------------------
(* Leaderboard queries *)

\* TopCompare without the avg_rating tie-break
TopCompareTipsOnly(a, b) ==
    IF b.total_tips = a.total_tips THEN 0
    ELSE IF b.total_tips > a.total_tips THEN 1 ELSE -1

\* the comparator of getLeaderboardForTopDJs, as the sign of what it returns
TopCompare(a, b) ==
    IF b.total_tips = a.total_tips
    THEN FloatDiffSign(b.avg_rating, a.avg_rating)
    ELSE IF b.total_tips > a.total_tips THEN 1 ELSE -1

\* x put into the sorted s behind every element that does not sort after it
RECURSIVE InsertSorted(_, _)
InsertSorted(x, s) ==
    IF s = <<>> THEN <<x>>
    ELSE IF TopCompare(Head(s), x) > 0 THEN <<x>> \o s
    ELSE <<Head(s)>> \o InsertSorted(x, Tail(s))

\* Array.prototype.sort with TopCompare: a stable sort
RECURSIVE SortTop(_)
SortTop(s) ==
    IF s = <<>> THEN <<>>
    ELSE InsertSorted(s[Len(s)], SortTop(SubSeq(s, 1, Len(s) - 1)))

\* slice(1, 5) in place of slice(0, 5)
Slice5SkipFirst(s) == SubSeq(s, 2, IF Len(s) < 5 THEN Len(s) ELSE 5)

\* topDJs.slice(0, 5)
Slice5(s) == SubSeq(s, 1, IF Len(s) < 5 THEN Len(s) ELSE 5)

\* what getLeaderboardForTopDJs returns
GetLeaderboardForTopDJsResult ==
    Ok(Slice5(SortTop(Values(leaderboardStorage))))

\* getLeaderboardForTopDJs, a query
GetLeaderboardForTopDJs ==
    /\ GetLeaderboardForTopDJsResult.status = "Ok"
    /\ UNCHANGED vars

\* GetLeaderboardResult without the check for an empty leaderboard
GetLeaderboardResultNoCheck == Ok(Values(leaderboardStorage))

\* what getLeaderboard returns
GetLeaderboardResult ==
    LET entries == Values(leaderboardStorage)
    IN  IF Len(entries) = 0 THEN CreateError("NotFound") ELSE Ok(entries)

\* getLeaderboard, a query
GetLeaderboard ==
    /\ GetLeaderboardResult.status \in {"Ok", "NotFound"}
    /\ UNCHANGED vars

\* what searchDJsByRating collects: the profile found for each name, in order
RECURSIVE FoundDJs(_)
FoundDJs(djNames) ==
    IF djNames = <<>> THEN <<>>
    ELSE FindDJ(Head(djNames)) \o FoundDJs(Tail(djNames))

\* SearchDJsByRatingResult without the check for an empty result
SearchDJsByRatingResultNoCheck(rating) ==
    LET AtLeast(entry) == FloatGeq(entry.avg_rating, rating)
        kept == SelectSeq(Values(leaderboardStorage), AtLeast)
    IN  Ok(FoundDJs([i \in 1..Len(kept) |-> kept[i].dj_name]))

\* SearchDJsByRatingResult with the emptiness check made on the names of the
\* entries kept, before they are resolved
SearchDJsByRatingResultNamesCheck(rating) ==
    LET AtLeast(entry) == FloatGeq(entry.avg_rating, rating)
        kept == SelectSeq(Values(leaderboardStorage), AtLeast)
        djNames == [i \in 1..Len(kept) |-> kept[i].dj_name]
    IN  IF Len(djNames) = 0 THEN CreateError("NotFound") ELSE Ok(FoundDJs(djNames))

\* what searchDJsByRating returns
SearchDJsByRatingResult(rating) ==
    LET AtLeast(entry) == FloatGeq(entry.avg_rating, rating)
        kept == SelectSeq(Values(leaderboardStorage), AtLeast)
        djNames == [i \in 1..Len(kept) |-> kept[i].dj_name]
        djs == FoundDJs(djNames)
    IN  IF Len(djs) = 0 THEN CreateError("NotFound") ELSE Ok(djs)

\* searchDJsByRating, a query
SearchDJsByRating(rating) ==
    /\ SearchDJsByRatingResult(rating).status \in {"Ok", "NotFound"}
    /\ UNCHANGED vars

----------------------------------------------------------------------------
(* Song requests, events, playlists and the remaining queries *)

\* what getUserProfile returns
GetUserProfileResult(userId) ==
    IF Get(usersStorage, userId) = <<>>
    THEN CreateError("NotFound")
    ELSE Ok(Get(usersStorage, userId))

\* getUserProfile, a query
GetUserProfile(userId) ==
    /\ GetUserProfileResult(userId).status \in {"Ok", "NotFound"}
    /\ UNCHANGED vars

\* what getUserProfiles returns
GetUserProfilesResult ==
    LET users == Values(usersStorage)
    IN  IF Len(users) = 0 THEN CreateError("NotFound") ELSE Ok(users)

\* getUserProfiles, a query
GetUserProfiles ==
    /\ GetUserProfilesResult.status \in {"Ok", "NotFound"}
    /\ UNCHANGED vars

\* CreateSongRequestResult without the test of the caller's role
CreateSongRequestResultAnyRole(user_id, song_name) ==
    IF song_name = <<>> \/ user_id = <<>> \/ Trim(song_name) = <<>>
    THEN CreateError("InvalidPayload")
    ELSE IF Get(usersStorage, user_id) = <<>> THEN CreateError("NotFound")
    ELSE Ok(<<[user_id |-> user_id, song_name |-> Trim(song_name),
               request_status |-> "Pending"]>>)

\* what createSongRequest returns
CreateSongRequestResult(user_id, song_name) ==
    IF song_name = <<>> \/ user_id = <<>> \/ Trim(song_name) = <<>>
    THEN CreateError("InvalidPayload")
    ELSE IF Get(usersStorage, user_id) = <<>> THEN CreateError("NotFound")
    ELSE IF Get(usersStorage, user_id)[1].role = "DJ" THEN CreateError("InvalidPayload")
    ELSE Ok(<<[user_id |-> user_id, song_name |-> Trim(song_name),
               request_status |-> "Pending"]>>)

\* createSongRequest
CreateSongRequest(user_id, song_name) ==
    LET r == CreateSongRequestResult(user_id, song_name)
    IN  IF r.status = "Ok"
        THEN /\ songRequestsStorage' = songRequestsStorage (+) SetToBag({r.value[1]})
             /\ UNCHANGED <<usersStorage, contactsStorage, tipsStorage, ratingsStorage,
                            leaderboardStorage, eventsStorage, playlistsStorage>>
        ELSE UNCHANGED vars

\* what createEvent returns; eventId is the uuid drawn for the event and
\* time what ic.time() reads during the call
CreateEventResult(eventId, event_name, dj_name, venue, capacity, scheduled_at, time) ==
    IF \/ event_name = <<>> \/ dj_name = <<>> \/ venue = <<>>
       \/ Trim(event_name) = <<>> \/ Trim(dj_name) = <<>> \/ Trim(venue) = <<>>
       \/ capacity <= 0 \/ scheduled_at <= time
    THEN CreateError("InvalidPayload")
    ELSE Ok(<<[id |-> eventId, event_name |-> Trim(event_name),
               dj_name |-> Trim(dj_name), venue |-> Trim(venue),
               capacity |-> capacity, scheduled_at |-> scheduled_at]>>)

\* createEvent that also opens a leaderboard entry for the event's DJ
CreateEventWithEntry(eventId, event_name, dj_name, venue, capacity, scheduled_at, time) ==
    LET r == CreateEventResult(eventId, event_name, dj_name, venue, capacity,
                               scheduled_at, time)
    IN  /\ eventId \notin DOMAIN eventsStorage
        /\ IF r.status = "Ok"
           THEN /\ eventsStorage' = Insert(eventsStorage, eventId, r.value[1])
                /\ leaderboardStorage' =
                      IF Get(leaderboardStorage, Trim(dj_name)) # <<>>
                      THEN leaderboardStorage
                      ELSE Insert(leaderboardStorage, Trim(dj_name), NoEntry(dj_name))
                /\ UNCHANGED <<usersStorage, contactsStorage, tipsStorage,
                               ratingsStorage, songRequestsStorage, playlistsStorage>>
           ELSE UNCHANGED vars

\* createEvent
CreateEvent(eventId, event_name, dj_name, venue, capacity, scheduled_at, time) ==
    LET r == CreateEventResult(eventId, event_name, dj_name, venue, capacity,
                               scheduled_at, time)
    IN  /\ eventId \notin DOMAIN eventsStorage
        /\ IF r.status = "Ok"
           THEN /\ eventsStorage' = Insert(eventsStorage, eventId, r.value[1])
                /\ UNCHANGED <<usersStorage, contactsStorage, tipsStorage,
                               ratingsStorage, leaderboardStorage,
                               songRequestsStorage, playlistsStorage>>
           ELSE UNCHANGED vars

\* what getEvent returns
GetEventResult(eventId) ==
    IF Get(eventsStorage, eventId) = <<>>
    THEN CreateError("NotFound")
    ELSE Ok(Get(eventsStorage, eventId))

\* getEvent, a query
GetEvent(eventId) ==
    /\ GetEventResult(eventId).status \in {"Ok", "NotFound"}
    /\ UNCHANGED vars

\* what getAllEvents returns
GetAllEventsResult ==
    LET events == Values(eventsStorage)
    IN  IF Len(events) = 0 THEN CreateError("NotFound") ELSE Ok(events)

\* getAllEvents, a query
GetAllEvents ==
    /\ GetAllEventsResult.status \in {"Ok", "NotFound"}
    /\ UNCHANGED vars

\* what createPlaylist returns
CreatePlaylistResult(dj_name, event_id, song_list) ==
    IF \/ dj_name = <<>> \/ event_id = <<>>
       \/ Trim(dj_name) = <<>> \/ Trim(event_id) = <<>> \/ Len(song_list) = 0
    THEN CreateError("InvalidPayload")
    ELSE IF Get(eventsStorage, event_id) = <<>> THEN CreateError("NotFound")
    ELSE Ok(<<[dj_name |-> Trim(dj_name), event_id |-> event_id,
               song_list |-> [i \in 1..Len(song_list) |-> Trim(song_list[i])]]>>)

\* createPlaylist
CreatePlaylist(dj_name, event_id, song_list) ==
    LET r == CreatePlaylistResult(dj_name, event_id, song_list)
    IN  IF r.status = "Ok"
        THEN /\ playlistsStorage' = playlistsStorage (+) SetToBag({r.value[1]})
             /\ UNCHANGED <<usersStorage, contactsStorage, tipsStorage, ratingsStorage,
                            leaderboardStorage, songRequestsStorage, eventsStorage>>
        ELSE UNCHANGED vars

\* what getPlaylistByDjName returns, as the set of the playlists found
GetPlaylistByDjNameResult(dj_name) ==
    LET playlists == {playlist \in BagToSet(playlistsStorage) :
                        ToLowerCase(playlist.dj_name) = ToLowerCase(Trim(dj_name))}
    IN  IF playlists = {} THEN CreateError("NotFound") ELSE Ok(playlists)

\* getPlaylistByDjName, a query
GetPlaylistByDjName(dj_name) ==
    /\ GetPlaylistByDjNameResult(dj_name).status \in {"Ok", "NotFound"}
    /\ UNCHANGED vars

----------------------------------------------------------------------------
(* The calls, with their arguments drawn from the given sets.  A profile    *)
(* payload is <<name, contact, role>>; at most maxEvents tips and ratings   *)
(* are stored in one run.                                                   *)

Calls(userIds, profiles, callers, djNames, amounts, ratings, thresholds, maxEvents) ==
    \/ \E id \in userIds, p \in profiles : CreateUserProfile(id, p[1], p[2], p[3])
    \/ \E id \in userIds, p \in profiles : UpdateUserProfile(id, p[1], p[2], p[3])
    \/ \E id \in userIds : DeleteUserProfile(id)
    \/ /\ Events < maxEvents
       /\ \E u \in callers, d \in djNames, a \in amounts : CreateTip(u, d, a)
    \/ /\ Events < maxEvents
       /\ \E u \in callers, d \in djNames, r \in ratings : CreateRating(u, d, r)
    \/ GetLeaderboardForTopDJs
    \/ GetLeaderboard
    \/ \E t \in thresholds : SearchDJsByRating(t)

----------------------------------------------------------------------------
(* Spec: two profiles, one name, two leaderboard keys that differ in case   *)

UserIds == {<<"1">>, <<"2">>}
UserIdInputs == UserIds \cup {<<>>}
UserNameInputs == {<<" ", "A">>, <<" ">>}
ContactInputs == {<<"x">>, <<"y", " ">>, <<>>}
RoleInputs == {"DJ", "RegularUser"}
DjNameInputs == {<<"a">>, <<"A", " ">>, <<"b">>, <<" ">>}
AmountInputs == {0, 1, 2}
RatingInputs == {0, 1, 2, 6}
ThresholdInputs == {NumberOf(2), Quotient(3, 2)}

Next ==
    Calls(UserIds, UserNameInputs \X ContactInputs \X RoleInputs, UserIdInputs,
          DjNameInputs, AmountInputs, RatingInputs, ThresholdInputs, MaxEvents)

Spec == Init /\ [][Next]_vars

----------------------------------------------------------------------------
(* SpecTop: one DJ whose name is spelled six ways, so that the leaderboard  *)
(* can hold more than the five entries getLeaderboardForTopDJs returns      *)

TopProfiles == {<<<<"A", "B", "X">>, <<"x">>, "RegularUser">>,
                <<<<"a", "b", "x">>, <<"y">>, "DJ">>}
TopDjNames == {<<"a", "b", "x">>, <<"a", "b", "X">>, <<"a", "B", "x">>,
               <<"A", "b", "x">>, <<"A", "B", "x">>, <<"A", "B", "X">>}
TopAmounts == {1}
TopRatings == {1}
TopThresholds == {NumberOf(1)}

NextTop ==
    Calls(UserIds, TopProfiles, {<<"1">>}, TopDjNames, TopAmounts, TopRatings,
          TopThresholds, MaxTopEvents)

SpecTop == Init /\ [][NextTop]_vars

----------------------------------------------------------------------------
(* SpecSearch: two DJs with different names, so that of two entries one    *)
(* can lose its DJ while the other keeps it                                *)

SearchProfiles == {<<<<"A">>, <<"x">>, "DJ">>, <<<<"b">>, <<"y">>, "DJ">>,
                   <<<<"B">>, <<"y">>, "RegularUser">>}
SearchDjNames == {<<"a">>, <<"b">>, <<"B">>}
SearchAmounts == {1}
SearchRatings == {1, 2}
SearchThresholds == {NumberOf(2), Quotient(3, 2)}

NextSearch ==
    Calls(UserIds, SearchProfiles, UserIds, SearchDjNames, SearchAmounts,
          SearchRatings, SearchThresholds, MaxEvents)

SpecSearch == Init /\ [][NextSearch]_vars

----------------------------------------------------------------------------
(* SpecNova: the DJ "Nova", tips of 5, 10 and 20 and ratings of 3, 4 and 5. *)
(* The threshold 4.1 is the fraction 41/10: the double nearest to it lies,   *)
(* like it, strictly between 4 and every larger average a run can reach.    *)

Nova == <<"N", "o", "v", "a">>
NovaProfiles == {<<Nova, <<"x">>, "DJ">>, <<<<"A">>, <<"y">>, "RegularUser">>}
NovaDjNames == {Nova}
NovaAmounts == {5, 10, 20}
NovaRatings == {3, 4, 5}
NovaThresholds == {NumberOf(4), Quotient(41, 10)}

NextNova ==
    Calls(UserIds, NovaProfiles, {<<"1">>}, NovaDjNames, NovaAmounts, NovaRatings,
          NovaThresholds, MaxNovaEvents)

SpecNova == Init /\ [][NextNova]_vars

----------------------------------------------------------------------------
(* SpecContacts: createUserProfile and updateUserProfile alone, with three *)
(* contacts for two users                                                  *)

ContactsProfiles ==
    {<<" ", "A">>} \X {<<"x">>, <<"y", " ">>, <<"X">>} \X RoleInputs

NextContacts ==
    \/ \E id \in UserIds, p \in ContactsProfiles :
           CreateUserProfile(id, p[1], p[2], p[3])
    \/ \E id \in UserIds, p \in ContactsProfiles :
           UpdateUserProfile(id, p[1], p[2], p[3])

SpecContacts == Init /\ [][NextContacts]_vars

----------------------------------------------------------------------------
(* SpecRoutes: every route of the canister, each with few arguments        *)

\* song requests, events and playlists stored so far
Records ==
    BagCardinality(songRequestsStorage) + Cardinality(DOMAIN eventsStorage)
        + BagCardinality(playlistsStorage)

RouteProfiles == {<<<<"A">>, <<"x">>, "DJ">>, <<<<"B">>, <<"y">>, "RegularUser">>}
RouteDjNames == {<<"a">>}
RouteAmounts == {1}
RouteRatings == {1}
RouteThresholds == {NumberOf(1)}
SongNameInputs == {<<"x", " ">>, <<" ">>}
EventIds == {<<"1">>, <<"2">>}
EventNameInputs == {<<"X">>}
VenueInputs == {<<"y">>}
CapacityInputs == {0, 1}
ScheduledAtInputs == {1, 2}
TimeInputs == {1}
SongListInputs == {<<>>, <<<<"x", " ">>>>}

NextRoutes ==
    \/ Calls(UserIds, RouteProfiles, UserIds, RouteDjNames, RouteAmounts,
             RouteRatings, RouteThresholds, MaxEvents)
    \/ \E id \in UserIds : GetUserProfile(id)
    \/ GetUserProfiles
    \/ /\ Records < MaxRecords
       /\ \E u \in UserIds, s \in SongNameInputs : CreateSongRequest(u, s)
    \/ /\ Records < MaxRecords
       /\ \E id \in EventIds, n \in EventNameInputs, d \in RouteDjNames,
             v \in VenueInputs, c \in CapacityInputs, at \in ScheduledAtInputs,
             time \in TimeInputs :
               CreateEvent(id, n, d, v, c, at, time)
    \/ \E id \in EventIds : GetEvent(id)
    \/ GetAllEvents
    \/ /\ Records < MaxRecords
       /\ \E d \in RouteDjNames, id \in EventIds, l \in SongListInputs :
               CreatePlaylist(d, id, l)
    \/ \E d \in RouteDjNames : GetPlaylistByDjName(d)

SpecRoutes == Init /\ [][NextRoutes]_vars

----------------------------------------------------------------------------
(* The first revision of the canister (lines 1-618), whose avg_rating is a *)
(* nat64.  Its entries have no total_rating_points, its calls do not trim  *)
(* their texts and its createRating looks up no DJ.  SpecRev1 runs its     *)
(* createUserProfile, createTip, createRating and getLeaderboard.          *)

\* what createUserProfile of the first revision returns
CreateUserProfileRev1Result(userId, name, contact, role) ==
    IF name = <<>> \/ contact = <<>>
    THEN CreateError("InvalidPayload")
    ELSE IF \E id \in DOMAIN usersStorage : usersStorage[id].contact = contact
    THEN CreateError("InvalidPayload")
    ELSE Ok(<<User(userId, name, contact, role)>>)

\* createUserProfile of the first revision
CreateUserProfileRev1(userId, name, contact, role) ==
    LET r == CreateUserProfileRev1Result(userId, name, contact, role)
    IN  /\ userId \notin DOMAIN usersStorage
        /\ IF r.status = "Ok"
           THEN /\ usersStorage' = Insert(usersStorage, userId, r.value[1])
                /\ UNCHANGED <<contactsStorage, tipsStorage, ratingsStorage,
                               leaderboardStorage, eventStores>>
           ELSE UNCHANGED vars

\* usersStorage.values().find(dj => dj.name.toLowerCase() ===
\*                                   payload.dj_name.toLowerCase())
FindDJRev1(name) ==
    LET users == Values(usersStorage)
        IsNamed(dj) == ToLowerCase(dj.name) = ToLowerCase(name)
        found == {i \in 1..Len(users) : IsNamed(users[i])}
    IN  IF found = {} THEN <<>> ELSE <<users[First(found)]>>

\* what createTip of the first revision returns
CreateTipRev1Result(user_id, dj_name, amount) ==
    IF dj_name = <<>> \/ amount <= 0 \/ user_id = <<>>
    THEN CreateError("InvalidPayload")
    ELSE IF Get(usersStorage, user_id) = <<>> THEN CreateError("NotFound")
    ELSE IF Get(usersStorage, user_id)[1].role = "DJ" THEN CreateError("InvalidPayload")
    ELSE IF FindDJRev1(dj_name) = <<>> THEN CreateError("NotFound")
    ELSE Ok(<<[user_id |-> user_id, dj_name |-> dj_name, amount |-> amount,
               tip_status |-> "Pending"]>>)

\* the entry createTip of the first revision writes for dj_name
TipEntryRev1(dj_name, amount) ==
    LET leaderboardEntryOpt == Get(leaderboardStorage, dj_name)
    IN  IF leaderboardEntryOpt # <<>>
        THEN [leaderboardEntryOpt[1] EXCEPT !.total_tips = @ + amount]
        ELSE [dj_name |-> dj_name,
              total_tips |-> amount,
              total_ratings |-> 0,
              avg_rating |-> 0]

\* createTip of the first revision
CreateTipRev1(user_id, dj_name, amount) ==
    LET r == CreateTipRev1Result(user_id, dj_name, amount)
    IN  IF r.status = "Ok"
        THEN /\ tipsStorage' = tipsStorage (+) SetToBag({r.value[1]})
             /\ leaderboardStorage' =
                    Insert(leaderboardStorage, dj_name, TipEntryRev1(dj_name, amount))
             /\ UNCHANGED <<usersStorage, contactsStorage, ratingsStorage, eventStores>>
        ELSE UNCHANGED vars

\* what createRating of the first revision returns
CreateRatingRev1Result(user_id, dj_name, rating) ==
    IF dj_name = <<>> \/ user_id = <<>>
    THEN CreateError("InvalidPayload")
    ELSE IF Get(usersStorage, user_id) = <<>> THEN CreateError("NotFound")
    ELSE Ok(<<[user_id |-> user_id, dj_name |-> dj_name, rating |-> rating]>>)

\* RatingEntryRev1 with the incoming rating added to the sum it divides
RatingEntryRev1Mean(dj_name, rating) ==
    LET leaderboardEntryOpt == Get(leaderboardStorage, dj_name)
    IN  IF leaderboardEntryOpt # <<>>
        THEN LET leaderboardEntry == leaderboardEntryOpt[1]
                 total_ratings == leaderboardEntry.total_ratings + 1
             IN  [leaderboardEntry EXCEPT
                     !.total_ratings = total_ratings,
                     !.avg_rating =
                         (leaderboardEntry.avg_rating * leaderboardEntry.total_ratings
                             + rating) \div total_ratings]
        ELSE [dj_name |-> dj_name, total_tips |-> 0, total_ratings |-> 1,
              avg_rating |-> rating]

\* the entry createRating of the first revision writes for dj_name; the
\* division is that of two bigints, which truncates
RatingEntryRev1(dj_name, rating) ==
    LET leaderboardEntryOpt == Get(leaderboardStorage, dj_name)
    IN  IF leaderboardEntryOpt # <<>>
        THEN LET leaderboardEntry == leaderboardEntryOpt[1]
                 total_ratings == leaderboardEntry.total_ratings + 1
                 avg_rating ==
                     (leaderboardEntry.avg_rating * leaderboardEntry.total_ratings)
                         \div total_ratings
             IN  [leaderboardEntry EXCEPT
                     !.total_ratings = total_ratings,
                     !.avg_rating = avg_rating]
        ELSE [dj_name |-> dj_name,
              total_tips |-> 0,
              total_ratings |-> 1,
              avg_rating |-> rating]

\* createRating of the first revision
CreateRatingRev1(user_id, dj_name, rating) ==
    LET r == CreateRatingRev1Result(user_id, dj_name, rating)
    IN  IF r.status = "Ok"
        THEN /\ ratingsStorage' = ratingsStorage (+) SetToBag({r.value[1]})
             /\ leaderboardStorage' =
                    Insert(leaderboardStorage, dj_name, RatingEntryRev1(dj_name, rating))
             /\ UNCHANGED <<usersStorage, contactsStorage, tipsStorage, eventStores>>
        ELSE UNCHANGED vars

Rev1Profiles == {<<<<"A">>, <<"x">>, "DJ">>, <<<<"B">>, <<"y">>, "RegularUser">>}
Rev1DjNames == {<<"a">>, <<>>}
Rev1Amounts == {1}
Rev1Ratings == {1, 3, 5}

NextRev1 ==
    \/ \E id \in UserIds, p \in Rev1Profiles :
           CreateUserProfileRev1(id, p[1], p[2], p[3])
    \/ /\ Events < MaxRev1Events
       /\ \E u \in UserIds, d \in Rev1DjNames, a \in Rev1Amounts : CreateTipRev1(u, d, a)
    \/ /\ Events < MaxRev1Events
       /\ \E u \in UserIds, d \in Rev1DjNames, r \in Rev1Ratings :
              CreateRatingRev1(u, d, r)
    \/ GetLeaderboard

SpecRev1 == Init /\ [][NextRev1]_vars

----------------------------------------------------------------------------
(* What the stored Tip and Rating records add up to.  Every successful      *)
(* createTip stores one Tip and every successful createRating one Rating,   *)
(* and nothing removes them, so the records are the calls that succeeded.   *)

\* the stored tips of leaderboard key k
TipsOf(k) == {t \in BagToSet(tipsStorage) : t.dj_name = k}

\* the stored ratings of leaderboard key k
RatingsOf(k) == {r \in BagToSet(ratingsStorage) : r.dj_name = k}

RECURSIVE SumAmounts(_)
SumAmounts(S) ==
    IF S = {} THEN 0
    ELSE LET t == CHOOSE x \in S : TRUE
         IN  t.amount * CopiesIn(t, tipsStorage) + SumAmounts(S \ {t})

RECURSIVE SumRatings(_)
SumRatings(S) ==
    IF S = {} THEN 0
    ELSE LET r == CHOOSE x \in S : TRUE
         IN  r.rating * CopiesIn(r, ratingsStorage) + SumRatings(S \ {r})

RECURSIVE CountTips(_)
CountTips(S) ==
    IF S = {} THEN 0
    ELSE LET t == CHOOSE x \in S : TRUE
         IN  CopiesIn(t, tipsStorage) + CountTips(S \ {t})

RECURSIVE CountRatings(_)
CountRatings(S) ==
    IF S = {} THEN 0
    ELSE LET r == CHOOSE x \in S : TRUE
         IN  CopiesIn(r, ratingsStorage) + CountRatings(S \ {r})

Keys == DOMAIN leaderboardStorage

\* the Tip a step stores, as a set: empty unless the step is a successful createTip
TipStored == {t \in BagToSet(tipsStorage') :
                 CopiesIn(t, tipsStorage') > CopiesIn(t, tipsStorage)}

\* the Rating a step stores: empty unless the step is a successful createRating
RatingStored == {r \in BagToSet(ratingsStorage') :
                    CopiesIn(r, ratingsStorage') > CopiesIn(r, ratingsStorage)}

\* every entry but that of key k is the same after the step
OthersUnchanged(k) ==
    \A j \in Keys \ {k} : j \in DOMAIN leaderboardStorage'
                          /\ leaderboardStorage'[j] = leaderboardStorage[j]

----------------------------------------------------------------------------
(* Claims *)

\* C1: after any run, the entry of a DJ (the trimmed dj_name the calls give,
\* which is the leaderboard key) exists as soon as one createTip naming it has
\* succeeded, and its total_tips is the sum of the amounts of all successful
\* createTip calls naming it, whatever other calls are interleaved; and no step
\* removes an entry or lowers its total_tips.
C1_TotalTipsIsSumOfAmounts ==
    /\ [](/\ \A t \in BagToSet(tipsStorage) : t.dj_name \in Keys
          /\ \A k \in Keys :
                leaderboardStorage[k].total_tips = SumAmounts(TipsOf(k)))
    /\ [][\A k \in Keys :
             /\ k \in DOMAIN leaderboardStorage'
             /\ leaderboardStorage'[k].total_tips
                    >= leaderboardStorage[k].total_tips]_vars

\* C1 witness: one key has taken three tips of different amounts, or two tips
\* of different amounts with a rating in between or around them
C1_Witness ==
    \E k \in Keys :
        /\ Cardinality(TipsOf(k)) >= 2
        /\ leaderboardStorage[k].total_tips = 3
        /\ leaderboardStorage[k].total_ratings = 1

\* C2: for the ratings r1..rN of the successful createRating calls naming one
\* DJ (one leaderboard key), the entry has total_ratings = N,
\* total_rating_points = r1+...+rN and avg_rating * N = r1+...+rN exactly: the
\* average is the true quotient, never its integer part.
C2_AverageIsExactMean ==
    /\ \A r \in BagToSet(ratingsStorage) : r.dj_name \in Keys
    /\ \A k \in Keys :
          LET e == leaderboardStorage[k]
              N == CountRatings(RatingsOf(k))
              sum == SumRatings(RatingsOf(k))
          IN  /\ e.total_ratings = N
              /\ e.total_rating_points = sum
              /\ N > 0 => /\ e.avg_rating.den > 0
                          /\ e.avg_rating.num * N = sum * e.avg_rating.den

\* C2 witness: three ratings of one key whose mean is no integer
C2_Witness ==
    \E k \in Keys :
        /\ CountRatings(RatingsOf(k)) = 3
        /\ SumRatings(RatingsOf(k)) % 3 # 0
        /\ leaderboardStorage[k].avg_rating.den = 3

\* C3: in every reachable state an entry with total_ratings > 0 has
\* avg_rating = total_rating_points / total_ratings, and an entry with
\* total_ratings = 0 has avg_rating = 0 and total_rating_points = 0.
C3_AvgRatingInvariant ==
    \A k \in Keys :
        LET e == leaderboardStorage[k]
        IN  /\ e.total_ratings >= 0
            /\ e.avg_rating.den > 0
            /\ e.total_ratings > 0 =>
                  e.avg_rating.num * e.total_ratings
                      = e.total_rating_points * e.avg_rating.den
            /\ e.total_ratings = 0 =>
                  e.avg_rating.num = 0 /\ e.total_rating_points = 0

\* C3 witness: an entry rated twice with different values next to an entry
\* that has tips and no rating
C3_Witness ==
    \E k, j \in Keys :
        /\ leaderboardStorage[k].total_ratings = 2
        /\ leaderboardStorage[k].total_rating_points = 3
        /\ leaderboardStorage[j].total_ratings = 0
        /\ leaderboardStorage[j].total_tips > 0

\* C4: a successful createTip(amount) for a key with no entry adds the entry
\* (total_tips = amount, total_ratings = 0, total_rating_points = 0,
\* avg_rating = 0), a successful createRating(r) for a key with no entry adds
\* the entry (total_tips = 0, total_ratings = 1, total_rating_points = r,
\* avg_rating = r); either way there is exactly one entry more and every other
\* entry is unchanged.
C4_CreationOnFirstUse ==
    [][/\ \A t \in TipStored :
             t.dj_name \notin Keys =>
                /\ DOMAIN leaderboardStorage' = Keys \cup {t.dj_name}
                /\ Cardinality(DOMAIN leaderboardStorage') = Cardinality(Keys) + 1
                /\ leaderboardStorage'[t.dj_name] =
                       [dj_name |-> t.dj_name, total_tips |-> t.amount,
                        total_ratings |-> 0, total_rating_points |-> 0,
                        avg_rating |-> [num |-> 0, den |-> 1]]
                /\ OthersUnchanged(t.dj_name)
       /\ \A r \in RatingStored :
             r.dj_name \notin Keys =>
                /\ DOMAIN leaderboardStorage' = Keys \cup {r.dj_name}
                /\ Cardinality(DOMAIN leaderboardStorage') = Cardinality(Keys) + 1
                /\ leaderboardStorage'[r.dj_name] =
                       [dj_name |-> r.dj_name, total_tips |-> 0,
                        total_ratings |-> 1, total_rating_points |-> r.rating,
                        avg_rating |-> [num |-> r.rating, den |-> 1]]
                /\ OthersUnchanged(r.dj_name)]_vars

\* C4 witness: two entries, one added by its only tip and one by its only rating
C4_Witness ==
    \E k, j \in Keys :
        /\ CountTips(TipsOf(k)) = 1 /\ CountRatings(RatingsOf(k)) = 0
        /\ CountTips(TipsOf(j)) = 0 /\ CountRatings(RatingsOf(j)) = 1

C6_OnlyCompletedTipsCounted ==
    \A k \in Keys :
        leaderboardStorage[k].total_tips
            = SumAmounts({t \in TipsOf(k) : t.tip_status = "Completed"})

\* C6 as amended: every stored tip has status Pending (no call completes a
\* tip), and total_tips of every entry is the sum of the amounts of the key's
\* Pending tips: a tip is counted when it is stored.
C6_PendingTipsCounted ==
    /\ \A t \in BagToSet(tipsStorage) : t.tip_status = "Pending"
    /\ \A k \in Keys :
          leaderboardStorage[k].total_tips
              = SumAmounts({t \in TipsOf(k) : t.tip_status = "Pending"})

\* C6 witness: an entry whose total_tips counts two Pending tips
C6_Witness ==
    \E k \in Keys :
        /\ CountTips({t \in TipsOf(k) : t.tip_status = "Pending"}) = 2
        /\ leaderboardStorage[k].total_tips = 4

\* C7: there is at most one entry per DJ identity under case-insensitive
\* comparison of names: no two leaderboard keys differ only in letter case
\* (or surrounding whitespace).
C7_OneEntryPerDJIdentity ==
    \A k, j \in Keys :
        ToLowerCase(Trim(k)) = ToLowerCase(Trim(j)) => k = j

\* C8: what getLeaderboardForTopDJs returns is ordered by total_tips
\* descending, then avg_rating descending, then key ascending.  Of any two
\* entries of the leaderboard exactly one ranks before the other, so the state
\* of the leaderboard fixes the sequence: every call made in that state (a
\* query changes no state) returns the same one.
RanksBefore(a, b) ==
    \/ a.total_tips > b.total_tips
    \/ /\ a.total_tips = b.total_tips
       /\ a.avg_rating.num * b.avg_rating.den > b.avg_rating.num * a.avg_rating.den
    \/ /\ a.total_tips = b.total_tips
       /\ a.avg_rating.num * b.avg_rating.den = b.avg_rating.num * a.avg_rating.den
       /\ KeyLess(a.dj_name, b.dj_name)

C8_TopDJsOrder ==
    LET top == GetLeaderboardForTopDJsResult
    IN  /\ top.status = "Ok"
        /\ \A i, j \in 1..Len(top.value) :
              i < j => RanksBefore(top.value[i], top.value[j])
        /\ \A k, j \in Keys :
              k # j => (RanksBefore(leaderboardStorage[k], leaderboardStorage[j])
                        # RanksBefore(leaderboardStorage[j], leaderboardStorage[k]))

\* C8 witness: the result holds a pair that differs in total_tips, a pair
\* equal in total_tips that differs in avg_rating, and a pair equal in both
C8_Witness ==
    LET v == GetLeaderboardForTopDJsResult.value
    IN  /\ \E i, j \in 1..Len(v) :
              i < j /\ v[i].total_tips > v[j].total_tips
        /\ \E i, j \in 1..Len(v) :
              /\ i < j /\ v[i].total_tips = v[j].total_tips
              /\ v[i].avg_rating # v[j].avg_rating
              /\ KeyLess(v[j].dj_name, v[i].dj_name)
        /\ \E i, j \in 1..Len(v) :
              /\ i < j /\ v[i].total_tips = v[j].total_tips
              /\ v[i].avg_rating = v[j].avg_rating

\* C9: getLeaderboardForTopDJs returns min(5, number of entries) entries, each
\* an entry of the leaderboard and none twice, and no entry left out ranks
\* before one that is returned.
C9_TopDJsAreTheFirstFive ==
    LET v == GetLeaderboardForTopDJsResult.value
        n == Cardinality(Keys)
        returned == {v[i].dj_name : i \in 1..Len(v)}
    IN  /\ Len(v) = IF n < 5 THEN n ELSE 5
        /\ Cardinality(returned) = Len(v)
        /\ \A i \in 1..Len(v) :
              /\ v[i].dj_name \in Keys
              /\ v[i] = leaderboardStorage[v[i].dj_name]
        /\ \A k \in Keys \ returned :
              \A i \in 1..Len(v) : ~RanksBefore(leaderboardStorage[k], v[i])

\* C9 witness: six entries, five returned, the one left out tied in total_tips
\* with one that is returned
C9_Witness ==
    LET v == GetLeaderboardForTopDJsResult.value
        returned == {v[i].dj_name : i \in 1..Len(v)}
    IN  /\ Cardinality(Keys) = 6
        /\ Len(v) = 5
        /\ \E k \in Keys \ returned :
              leaderboardStorage[k].total_tips = v[5].total_tips

\* C10: getLeaderboard returns NotFound when the leaderboard has no entry and
\* otherwise Ok with every entry exactly once, in ascending key order; and it
\* returns NotFound exactly when no createTip or createRating has succeeded.
C10_GetLeaderboard ==
    LET r == GetLeaderboardResult
        v == r.value
    IN  /\ Keys = {} => r.status = "NotFound"
        /\ Keys # {} =>
              /\ r.status = "Ok"
              /\ Len(v) = Cardinality(Keys)
              /\ \A k \in Keys : \E i \in 1..Len(v) : v[i] = leaderboardStorage[k]
              /\ \A i \in 1..Len(v) : v[i].dj_name \in Keys
              /\ \A i, j \in 1..Len(v) :
                    i < j => KeyLess(v[i].dj_name, v[j].dj_name)
        /\ r.status = "NotFound" <=> Events = 0

\* C10 witness: two entries, returned with the key "A" before the key "a"
C10_Witness ==
    LET r == GetLeaderboardResult
    IN  /\ r.status = "Ok"
        /\ Len(r.value) = 2
        /\ r.value[1].dj_name = <<"A">>
        /\ r.value[2].dj_name = <<"a">>

\* C11 as stated: every leaderboard read that returns a collection,
\* getLeaderboard, getLeaderboardForTopDJs and searchDJsByRating, reports an
\* empty result as NotFound; none returns Ok with an empty list.
C11_NoReadReturnsEmptyOk ==
    /\ GetLeaderboardResult.status = "Ok" => GetLeaderboardResult.value # <<>>
    /\ GetLeaderboardForTopDJsResult.status = "Ok" =>
          GetLeaderboardForTopDJsResult.value # <<>>
    /\ \A t \in ThresholdInputs :
          SearchDJsByRatingResult(t).status = "Ok" =>
              SearchDJsByRatingResult(t).value # <<>>

\* C11: getLeaderboard and searchDJsByRating report an empty result as
\* NotFound and never return Ok with an empty list; getLeaderboardForTopDJs
\* has no such check: it always returns Ok, with an empty list exactly when
\* the leaderboard has no entry.
C11_EmptyResultIsNotFoundExceptTopDJs ==
    /\ GetLeaderboardResult.status \in {"Ok", "NotFound"}
    /\ GetLeaderboardResult.status = "Ok" <=> GetLeaderboardResult.value # <<>>
    /\ \A t \in ThresholdInputs :
          LET r == SearchDJsByRatingResult(t)
          IN  /\ r.status \in {"Ok", "NotFound"}
              /\ r.status = "Ok" <=> r.value # <<>>
    /\ GetLeaderboardForTopDJsResult.status = "Ok"
    /\ GetLeaderboardForTopDJsResult.value = <<>> <=> Keys = {}

\* C11 witness: the leaderboard has an entry, getLeaderboard returns it, and
\* a search whose threshold no resolvable entry meets returns NotFound
C11_Witness ==
    /\ Keys # {}
    /\ GetLeaderboardResult.status = "Ok"
    /\ GetLeaderboardForTopDJsResult.value # <<>>
    /\ \E t \in ThresholdInputs : SearchDJsByRatingResult(t).status = "NotFound"
    /\ \E t \in ThresholdInputs : SearchDJsByRatingResult(t).status = "Ok"

\* the profiles a leaderboard key resolves to: the users with the DJ role
\* whose name is the key up to case
ProfilesOf(k) ==
    {usersStorage[id] : id \in {i \in DOMAIN usersStorage :
        /\ ToLowerCase(usersStorage[i].name) = ToLowerCase(k)
        /\ usersStorage[i].role = "DJ"}}

\* the keys of the entries whose avg_rating is at least threshold t
KeysAtLeast(t) ==
    {k \in Keys : FloatDiffSign(leaderboardStorage[k].avg_rating, t) # -1}

\* the keys among them that resolve to a DJ profile
KeysFound(t) == {k \in KeysAtLeast(t) : ProfilesOf(k) # {}}

\* C12: searchDJsByRating(threshold) never fails on an entry it cannot
\* resolve; when it returns Ok, the list holds one profile for each entry
\* whose avg_rating is at least the threshold and whose dj_name resolves, up
\* to case, to a user with the DJ role, that profile being one the name
\* resolves to, and nothing else: an entry below the threshold and an entry
\* that does not resolve contribute nothing.
C12_SearchReturnsResolvedEntriesAtLeast ==
    \A t \in SearchThresholds :
        LET r == SearchDJsByRatingResult(t)
            v == r.value
        IN  /\ r.status \in {"Ok", "NotFound"}
            /\ r.status = "Ok" =>
                  /\ Len(v) = Cardinality(KeysFound(t))
                  /\ \A k \in KeysFound(t) : \E i \in 1..Len(v) : v[i] \in ProfilesOf(k)
                  /\ \A i \in 1..Len(v) : \E k \in KeysFound(t) : v[i] \in ProfilesOf(k)

\* C12 witness: of three entries one meets the threshold and resolves, one
\* meets it and has lost its DJ, one is below it; the search returns one
\* profile
C12_Witness ==
    \E t \in SearchThresholds :
        /\ SearchDJsByRatingResult(t).status = "Ok"
        /\ Len(SearchDJsByRatingResult(t).value) = 1
        /\ KeysAtLeast(t) \ KeysFound(t) # {}
        /\ Keys \ KeysAtLeast(t) # {}

\* C13: searchDJsByRating returns NotFound exactly when no entry both meets
\* the threshold and resolves to a DJ profile, which includes the case where
\* entries meet the threshold and none of them resolves; otherwise it
\* returns Ok with a list that is not empty.
C13_NotFoundIffNothingResolved ==
    \A t \in ThresholdInputs :
        LET r == SearchDJsByRatingResult(t)
        IN  /\ r.status = "NotFound" <=> KeysFound(t) = {}
            /\ r.status = "Ok" <=> KeysFound(t) # {}
            /\ r.status = "Ok" => r.value # <<>>

\* C13 witness: an entry meets the threshold, none resolves, NotFound
C13_Witness ==
    \E t \in ThresholdInputs :
        /\ KeysAtLeast(t) # {}
        /\ KeysFound(t) = {}
        /\ SearchDJsByRatingResult(t).status = "NotFound"

\* C14: no step lowers a counter of an entry: total_tips, total_ratings and
\* total_rating_points of an entry that exists are each at least as large
\* after any step as before it, the entry is still there, and an entry whose
\* total_ratings is above 0 keeps it above 0 (absent, then present without
\* ratings, then present with ratings, never back).
C14_CountersNeverDecrease ==
    [][\A k \in Keys :
          /\ k \in DOMAIN leaderboardStorage'
          /\ leaderboardStorage'[k].total_tips >= leaderboardStorage[k].total_tips
          /\ leaderboardStorage'[k].total_ratings >= leaderboardStorage[k].total_ratings
          /\ leaderboardStorage'[k].total_rating_points
                >= leaderboardStorage[k].total_rating_points
          /\ leaderboardStorage[k].total_ratings > 0
                => leaderboardStorage'[k].total_ratings > 0]_vars

\* C14 witness: an entry that was created by a tip and has since been rated
\* twice
C14_Witness ==
    \E k \in Keys :
        /\ leaderboardStorage[k].total_tips > 0
        /\ leaderboardStorage[k].total_ratings = 2
        /\ leaderboardStorage[k].total_rating_points >= 2

\* C15: no step removes an entry from the leaderboard: a key that is there
\* before a step is there after it, whether the step is an updateUserProfile,
\* a deleteUserProfile or any other call.
C15_EntryNeverDeleted ==
    [][Keys \subseteq DOMAIN leaderboardStorage']_vars

\* C15 witness: an entry whose DJ profile has been deleted, no user being left
C15_Witness ==
    /\ Keys # {}
    /\ usersStorage = <<>>

\* C16: only createTip and createRating change the leaderboard: a step that
\* changes it stores a Tip or a Rating and changes no profile, contact, song
\* request, event or playlist, and a step that changes one of those, like
\* every query and every call that returns an error, leaves the leaderboard
\* as it is.
C16_OnlyTipsAndRatingsChangeLeaderboard ==
    [][/\ leaderboardStorage' # leaderboardStorage =>
             /\ TipStored # {} \/ RatingStored # {}
             /\ UNCHANGED <<usersStorage, contactsStorage, eventStores>>
       /\ (TipStored = {} /\ RatingStored = {}) =>
             leaderboardStorage' = leaderboardStorage]_vars

\* C16 witness: a leaderboard entry in a canister that has also stored a song
\* request, an event and a playlist and whose only profile is a regular user's
C16_Witness ==
    /\ Keys # {}
    /\ songRequestsStorage # EmptyBag
    /\ eventsStorage # <<>>
    /\ playlistsStorage # EmptyBag
    /\ \A id \in DOMAIN usersStorage : usersStorage[id].role = "RegularUser"

\* a createTip payload that passes the validation of its fields
ValidTip(user_id, dj_name, amount) ==
    user_id # <<>> /\ Trim(dj_name) # <<>> /\ amount > 0

\* a createRating payload that passes the validation of its fields
ValidRating(user_id, dj_name, rating) ==
    user_id # <<>> /\ Trim(dj_name) # <<>> /\ rating \in 1..5

\* the user making the call has the DJ role
CallerIsDJ(user_id) ==
    user_id \in DOMAIN usersStorage /\ usersStorage[user_id].role = "DJ"

\* C17 as stated: createTip and createRating with a valid payload whose
\* dj_name matches no user with the DJ role return NotFound.
C17_UnmatchedNameIsNotFound ==
    \A u \in UserIdInputs, d \in DjNameInputs :
        ProfilesOf(Trim(d)) = {} =>
            /\ \A a \in AmountInputs :
                  ValidTip(u, d, a) => CreateTipResult(u, d, a).status = "NotFound"
            /\ \A r \in RatingInputs :
                  ValidRating(u, d, r) => CreateRatingResult(u, d, r).status = "NotFound"

\* C17: createTip and createRating store a record and create or update an
\* entry only when dj_name matches, up to case, a user that has the DJ role
\* when the call is made.  A call whose dj_name matches none returns an
\* error and leaves the tips, the ratings and the leaderboard as they are;
\* with a valid payload the error is NotFound, except that createTip called
\* by a user with the DJ role returns InvalidPayload.
C17_EntryOnlyForExistingDJ ==
    /\ [](\A u \in UserIdInputs, d \in DjNameInputs :
            ProfilesOf(Trim(d)) = {} =>
                /\ \A a \in AmountInputs :
                      LET s == CreateTipResult(u, d, a).status
                      IN  /\ s \in {"NotFound", "InvalidPayload"}
                          /\ ValidTip(u, d, a) =>
                                s = IF CallerIsDJ(u) THEN "InvalidPayload"
                                    ELSE "NotFound"
                /\ \A r \in RatingInputs :
                      LET s == CreateRatingResult(u, d, r).status
                      IN  /\ s \in {"NotFound", "InvalidPayload"}
                          /\ ValidRating(u, d, r) => s = "NotFound")
    /\ [][/\ \A t \in TipStored : ProfilesOf(t.dj_name) # {}
          /\ \A r \in RatingStored : ProfilesOf(r.dj_name) # {}
          /\ \A k \in DOMAIN leaderboardStorage' :
                (k \notin Keys \/ leaderboardStorage'[k] # leaderboardStorage[k])
                    => ProfilesOf(k) # {}
          /\ ~UNCHANGED <<tipsStorage, ratingsStorage, leaderboardStorage>> =>
                \A u \in UserIdInputs, d \in DjNameInputs :
                    ProfilesOf(Trim(d)) = {} =>
                        /\ \A a \in AmountInputs : ~CreateTip(u, d, a)
                        /\ \A r \in RatingInputs : ~CreateRating(u, d, r)]_vars

\* C17 witness: a leaderboard entry exists, the name "b" matches no DJ, a
\* tip for "b" from a regular user returns NotFound and from a DJ
\* InvalidPayload, and a rating for "b" returns NotFound
C17_Witness ==
    \E u1, u2 \in DOMAIN usersStorage :
        /\ Keys # {}
        /\ ProfilesOf(<<"b">>) = {}
        /\ CreateTipResult(u1, <<"b">>, 1).status = "NotFound"
        /\ CreateTipResult(u2, <<"b">>, 1).status = "InvalidPayload"
        /\ CreateRatingResult(u2, <<"b">>, 1).status = "NotFound"

\* C18: createRating with a rating outside 1..5 (0, or above 5) returns
\* InvalidPayload, and no step that is such a call stores a Rating or changes
\* the leaderboard; so every stored Rating has a rating in 1..5 and the
\* total_rating_points of an entry lie between total_ratings and
\* 5 * total_ratings.
C18_RatingOutOfRangeRejected ==
    /\ [](/\ \A u \in UserIdInputs, d \in DjNameInputs, r \in RatingInputs \ (1..5) :
                CreateRatingResult(u, d, r).status = "InvalidPayload"
          /\ \A x \in BagToSet(ratingsStorage) : x.rating \in 1..5
          /\ \A k \in Keys :
                /\ leaderboardStorage[k].total_rating_points
                      >= leaderboardStorage[k].total_ratings
                /\ leaderboardStorage[k].total_rating_points
                      <= 5 * leaderboardStorage[k].total_ratings)
    /\ [][~UNCHANGED <<ratingsStorage, leaderboardStorage>> =>
             \A u \in UserIdInputs, d \in DjNameInputs, r \in RatingInputs \ (1..5) :
                 ~CreateRating(u, d, r)]_vars

\* C18 witness: a rating is stored, and where a rating of 1 would now be
\* accepted, ratings of 0 and of 6 return InvalidPayload
C18_Witness ==
    \E u \in UserIdInputs, d \in DjNameInputs :
        /\ ratingsStorage # EmptyBag
        /\ CreateRatingResult(u, d, 1).status = "Ok"
        /\ CreateRatingResult(u, d, 0).status = "InvalidPayload"
        /\ CreateRatingResult(u, d, 6).status = "InvalidPayload"

\* C19: createTip does not deduplicate: a step that stores a Tip equal to one
\* already stored (same user, same DJ, same amount) adds one more record and
\* raises the DJ's total_tips by the amount again; so the total_tips of an
\* entry is at least the amount of each stored Tip times the number of its
\* copies.
C19_NoDeduplication ==
    /\ [](\A t \in BagToSet(tipsStorage) :
             /\ t.dj_name \in Keys
             /\ leaderboardStorage[t.dj_name].total_tips
                   >= CopiesIn(t, tipsStorage) * t.amount)
    /\ [][\A t \in TipStored :
             CopiesIn(t, tipsStorage) >= 1 =>
                 /\ CopiesIn(t, tipsStorage') = CopiesIn(t, tipsStorage) + 1
                 /\ leaderboardStorage'[t.dj_name].total_tips
                       = leaderboardStorage[t.dj_name].total_tips + t.amount]_vars

\* C19 witness: the same tip stored twice, and no other tip for its DJ, whose
\* total_tips is twice the amount
C19_Witness ==
    \E t \in BagToSet(tipsStorage) :
        /\ CopiesIn(t, tipsStorage) = 2
        /\ TipsOf(t.dj_name) = {t}
        /\ leaderboardStorage[t.dj_name].total_tips = 2 * t.amount

\* the calls of the scenario of C20 have succeeded and no other for Nova:
\* one tip each of 10, 5 and 20 and one rating each of 5, 3 and 4
NovaScenario ==
    /\ CountTips(TipsOf(Nova)) = 3
    /\ \A a \in {10, 5, 20} : \E t \in TipsOf(Nova) : t.amount = a
    /\ CountRatings(RatingsOf(Nova)) = 3
    /\ \A x \in {5, 3, 4} : \E r \in RatingsOf(Nova) : r.rating = x

\* the result r of a search holds a profile of Nova
IncludesNova(r) ==
    r.status = "Ok" /\ \E i \in 1..Len(r.value) : r.value[i] \in ProfilesOf(Nova)

\* C20: starting with no entry for Nova, once tips of 10, 5 and 20 and
\* ratings of 5, 3 and 4 have been applied, in whatever order, Nova's entry
\* is total_tips = 35, total_ratings = 3, total_rating_points = 12,
\* avg_rating = 4; and while Nova's DJ profile exists, searchDJsByRating(4.0)
\* includes it and searchDJsByRating(4.1) does not.
C20_NovaScenario ==
    NovaScenario =>
        /\ Nova \in Keys
        /\ leaderboardStorage[Nova] =
              [dj_name |-> Nova, total_tips |-> 35, total_ratings |-> 3,
               total_rating_points |-> 12, avg_rating |-> NumberOf(4)]
        /\ ProfilesOf(Nova) # {} =>
              /\ IncludesNova(SearchDJsByRatingResult(NumberOf(4)))
              /\ ~IncludesNova(SearchDJsByRatingResult(Quotient(41, 10)))

\* C20 witness: the scenario has run and Nova's profile is there; the search
\* at 4.0 returns it and the search at 4.1 returns NotFound
C20_Witness ==
    /\ NovaScenario
    /\ ProfilesOf(Nova) # {}
    /\ IncludesNova(SearchDJsByRatingResult(NumberOf(4)))
    /\ SearchDJsByRatingResult(Quotient(41, 10)).status = "NotFound"

\* the entry e agrees with the stored records of its key, and its avg_rating
\* with its own counters
EntryComplete(e) ==
    /\ e.total_tips = SumAmounts(TipsOf(e.dj_name))
    /\ e.total_ratings = CountRatings(RatingsOf(e.dj_name))
    /\ e.total_rating_points = SumRatings(RatingsOf(e.dj_name))
    /\ e.avg_rating.num * e.total_ratings = e.total_rating_points * e.avg_rating.den

\* the counters of key k before a step, 0 where the entry is not there yet
Before(k) == IF k \in Keys THEN leaderboardStorage[k] ELSE NoEntry(k)

\* C21: with the calls of several users interleaved in any order, each call
\* is one step: the step that stores a Tip or a Rating also writes the entry,
\* adding to the counters as they were just before the step, so no update is
\* lost; and every entry a leaderboard query returns, in any state, carries
\* all stored tips and ratings of its key with an avg_rating that agrees with
\* its total_ratings and total_rating_points.
C21_CallsAreAtomic ==
    /\ [](/\ \A i \in 1..Len(GetLeaderboardResult.value) :
                EntryComplete(GetLeaderboardResult.value[i])
          /\ \A i \in 1..Len(GetLeaderboardForTopDJsResult.value) :
                EntryComplete(GetLeaderboardForTopDJsResult.value[i]))
    /\ [][/\ \A t \in TipStored :
                /\ t.dj_name \in DOMAIN leaderboardStorage'
                /\ leaderboardStorage'[t.dj_name].total_tips
                      = Before(t.dj_name).total_tips + t.amount
          /\ \A r \in RatingStored :
                /\ r.dj_name \in DOMAIN leaderboardStorage'
                /\ leaderboardStorage'[r.dj_name].total_ratings
                      = Before(r.dj_name).total_ratings + 1
                /\ leaderboardStorage'[r.dj_name].total_rating_points
                      = Before(r.dj_name).total_rating_points + r.rating]_vars

\* C21 witness: one entry holds a tip and ratings from two different users
C21_Witness ==
    \E k \in Keys :
        /\ TipsOf(k) # {}
        /\ \E r1, r2 \in RatingsOf(k) : r1.user_id # r2.user_id
        /\ GetLeaderboardResult.status = "Ok"

\* the SongRequest a step stores: empty unless the step is a successful
\* createSongRequest
SongRequestStored ==
    {s \in BagToSet(songRequestsStorage') :
        CopiesIn(s, songRequestsStorage') > CopiesIn(s, songRequestsStorage)}

\* C22: a user whose role is DJ can create neither a song request nor a tip:
\* createSongRequest and createTip with the user_id of a DJ-role user return
\* InvalidPayload, whatever the rest of the payload; and the user of every
\* SongRequest or Tip a step stores does not have the DJ role when the step
\* is taken, so such a call stores nothing and leaves the leaderboard as it is.
C22_DJCannotRequestOrTip ==
    /\ [](\A u \in DOMAIN usersStorage :
             usersStorage[u].role = "DJ" =>
                 /\ \A s \in SongNameInputs :
                       CreateSongRequestResult(u, s).status = "InvalidPayload"
                 /\ \A d \in RouteDjNames, a \in RouteAmounts :
                       CreateTipResult(u, d, a).status = "InvalidPayload")
    /\ [][/\ \A s \in SongRequestStored : ~CallerIsDJ(s.user_id)
          /\ \A t \in TipStored : ~CallerIsDJ(t.user_id)
          /\ ~UNCHANGED <<songRequestsStorage, tipsStorage, leaderboardStorage>> =>
                \A u \in DOMAIN usersStorage :
                    usersStorage[u].role = "DJ" =>
                        /\ \A s \in SongNameInputs : ~CreateSongRequest(u, s)
                        /\ \A d \in RouteDjNames, a \in RouteAmounts :
                              ~CreateTip(u, d, a)]_vars

\* C22 witness: a DJ and a regular user; a song request and a tip are stored,
\* the regular user's next ones would be accepted, the DJ's return
\* InvalidPayload
C22_Witness ==
    \E u1, u2 \in DOMAIN usersStorage :
        /\ usersStorage[u1].role = "DJ"
        /\ songRequestsStorage # EmptyBag
        /\ tipsStorage # EmptyBag
        /\ CreateSongRequestResult(u2, <<"x", " ">>).status = "Ok"
        /\ CreateTipResult(u2, <<"a">>, 1).status = "Ok"
        /\ CreateSongRequestResult(u1, <<"x", " ">>).status = "InvalidPayload"
        /\ CreateTipResult(u1, <<"a">>, 1).status = "InvalidPayload"

\* C23: in the first revision, whose avg_rating is a nat64, a createRating
\* that finds the entry sets avg_rating to (avg_rating * total_ratings) div
\* (total_ratings + 1), whatever the incoming rating; the stored average is
\* then never above the mean of the stored ratings, and (the witness) after
\* some sequences of ratings in 1..5 it differs from the floor of their mean.
C23_IntegerAverageDrifts ==
    /\ [](\A k \in Keys :
             leaderboardStorage[k].avg_rating * CountRatings(RatingsOf(k))
                 <= SumRatings(RatingsOf(k)))
    /\ [][\A r \in RatingStored :
             r.dj_name \in Keys =>
                 /\ leaderboardStorage'[r.dj_name].total_ratings
                       = leaderboardStorage[r.dj_name].total_ratings + 1
                 /\ leaderboardStorage'[r.dj_name].avg_rating
                       = (leaderboardStorage[r.dj_name].avg_rating
                             * leaderboardStorage[r.dj_name].total_ratings)
                         \div (leaderboardStorage[r.dj_name].total_ratings + 1)]_vars

\* C23 witness: an entry made of ratings only, each in 1..5, whose avg_rating
\* is not the floor of their mean
C23_Witness ==
    \E k \in Keys :
        /\ TipsOf(k) = {}
        /\ \A r \in RatingsOf(k) : r.rating \in 1..5
        /\ leaderboardStorage[k].total_ratings = CountRatings(RatingsOf(k))
        /\ leaderboardStorage[k].avg_rating
              # SumRatings(RatingsOf(k)) \div CountRatings(RatingsOf(k))

\* the dj_name of every stored Tip and Rating
RecordNames ==
    {t.dj_name : t \in BagToSet(tipsStorage)}
        \cup {r.dj_name : r \in BagToSet(ratingsStorage)}

\* C24: in every reachable state the leaderboard agrees with the stored
\* records: a key has an entry exactly when a Tip or a Rating with that
\* dj_name is stored, and then total_tips is the sum of the amounts of those
\* Tips, total_ratings the number of those Ratings and total_rating_points
\* the sum of their ratings.
C24_LeaderboardAgreesWithRecords ==
    /\ Keys = RecordNames
    /\ \A k \in Keys :
          /\ leaderboardStorage[k].dj_name = k
          /\ leaderboardStorage[k].total_tips = SumAmounts(TipsOf(k))
          /\ leaderboardStorage[k].total_ratings = CountRatings(RatingsOf(k))
          /\ leaderboardStorage[k].total_rating_points = SumRatings(RatingsOf(k))

\* C24 witness: two entries, one with tips and ratings, one with ratings
C24_Witness ==
    \E k1, k2 \in Keys :
        /\ k1 # k2
        /\ TipsOf(k1) # {}
        /\ RatingsOf(k1) # {}
        /\ RatingsOf(k2) # {}

\* C25: in every reachable state an entry with total_ratings > 0 has
\* total_ratings <= total_rating_points <= 5 * total_ratings, and its
\* avg_rating lies in the closed range 1..5.
C25_AvgRatingInRange ==
    \A k \in Keys :
        LET e == leaderboardStorage[k]
        IN  e.total_ratings > 0 =>
                /\ e.total_ratings <= e.total_rating_points
                /\ e.total_rating_points <= 5 * e.total_ratings
                /\ e.avg_rating.den > 0
                /\ e.avg_rating.den <= e.avg_rating.num
                /\ e.avg_rating.num <= 5 * e.avg_rating.den

\* C25 witness: an entry at the lower end, two ratings of 1, beside one whose
\* avg_rating is above 1
C25_Witness ==
    \E k1, k2 \in Keys :
        /\ leaderboardStorage[k1].total_ratings = 2
        /\ leaderboardStorage[k1].avg_rating = NumberOf(1)
        /\ leaderboardStorage[k2].avg_rating = NumberOf(2)

\* the entry of key k as the stored tips and ratings of k alone determine it
EntryOf(k) ==
    LET N == CountRatings(RatingsOf(k))
        sum == SumRatings(RatingsOf(k))
    IN  [dj_name |-> k,
         total_tips |-> SumAmounts(TipsOf(k)),
         total_ratings |-> N,
         total_rating_points |-> sum,
         avg_rating |-> IF N = 0 THEN [num |-> 0, den |-> 1]
                        ELSE LET g == GCD(sum, N)
                             IN  [num |-> sum \div g, den |-> N \div g]]

\* C26: a successful createRating on a key whose entry exists leaves the
\* total_tips of that entry, the set of entries and every other entry as
\* they were; and in every reachable state, whatever the order in which the
\* tips and ratings were applied, the entry of a key is the one its stored
\* tips and ratings determine as multisets.
C26_RatingKeepsTipsAndOrderIsIrrelevant ==
    /\ [](\A k \in Keys : leaderboardStorage[k] = EntryOf(k))
    /\ [][\A r \in RatingStored :
             r.dj_name \in Keys =>
                 /\ DOMAIN leaderboardStorage' = Keys
                 /\ leaderboardStorage'[r.dj_name].total_tips
                       = leaderboardStorage[r.dj_name].total_tips
                 /\ OthersUnchanged(r.dj_name)]_vars

\* C26 witness: an entry with a tip and a rating beside an entry with tips
C26_Witness ==
    \E k, j \in Keys :
        /\ k # j
        /\ leaderboardStorage[k].total_tips > 0
        /\ leaderboardStorage[k].total_ratings = 1
        /\ leaderboardStorage[j].total_tips > 0

\* C27: the list searchDJsByRating returns holds each DJ profile at most
\* once, in every reachable state and for every threshold.
C27_NoProfileTwice ==
    \A t \in ThresholdInputs :
        LET v == SearchDJsByRatingResult(t).value
        IN  \A i, j \in 1..Len(v) : i # j => v[i] # v[j]

\* C28: after any sequence of createUserProfile and updateUserProfile calls
\* no two stored users have the same contact, and the contact index holds
\* exactly the current contacts: every user's contact is a key that maps to
\* that user and every key maps to a user whose contact it is; so a contact
\* no user has at present, one a user has changed away from included, is
\* accepted for a new profile.
C28_ContactIndexIsCurrent ==
    /\ \A i, j \in DOMAIN usersStorage :
          i # j => usersStorage[i].contact # usersStorage[j].contact
    /\ \A i \in DOMAIN usersStorage :
          /\ usersStorage[i].contact \in DOMAIN contactsStorage
          /\ contactsStorage[usersStorage[i].contact] = i
    /\ \A c \in DOMAIN contactsStorage :
          /\ contactsStorage[c] \in DOMAIN usersStorage
          /\ usersStorage[contactsStorage[c]].contact = c
    /\ \A id \in UserIds, p \in ContactsProfiles :
          (\A i \in DOMAIN usersStorage : usersStorage[i].contact # Trim(p[2]))
              => CreateUserProfileResult(id, p[1], p[2], p[3]).status = "Ok"

====
